---- MODULE Spec2Model ----
(***************************************************************************)
(* Model of the MMT queue scheduler (MMTQueue.py, queueTools.py).          *)
(*                                                                         *)
(* Clock times are whole seconds.  Evening twilight of the first night is  *)
(* time 0, and night k starts 24 hours after night k-1.  Hours (doneTime,  *)
(* totalTime), the usage ratios and the weights are IEEE doubles, computed *)
(* with the operations and in the order of the code.                       *)
(*                                                                         *)
(* The ephemeris module (MMTEphem) is not part of the sources: it is an    *)
(* oracle, a fixed function of the sky position, the night and the time.   *)
(***************************************************************************)
EXTENDS Integers, Sequences, FiniteSets, TLC

(***************************************************************************)
(* Bounds of the model.                                                    *)
(***************************************************************************)
MaxRepeats == 2        \* largest number of visits a request asks for
NumNights == 2         \* largest number of lines of fitdates.dat
MaxLedgerLines == 1    \* largest number of data lines of donefile.dat

DaySeconds == 24 * 3600
Abs(x) == IF x < 0 THEN -x ELSE x

(***************************************************************************)
(* IEEE 754 binary64 arithmetic, round to nearest even.  A finite double   *)
(* is s * M * 2^e with s in {-1, 0, 1} and, unless it is zero, a 53 bit    *)
(* M = m3 * 2^42 + m2 * 2^28 + m1 * 2^14 + m0 with 2^52 <= M < 2^53.       *)
(* Subnormal numbers and overflow do not occur in the scheduler.           *)
(***************************************************************************)
B14 == 16384
P2 == <<1, 2, 4, 8, 16, 32, 64, 128, 256, 512, 1024, 2048, 4096, 8192, 16384>>

Dbl(s, e, m3, m2, m1, m0) ==
    [k |-> "fin", s |-> s, e |-> e, m3 |-> m3, m2 |-> m2, m1 |-> m1, m0 |-> m0]
FZero == Dbl(0, 0, 0, 0, 0, 0)
FOne == Dbl(1, -52, 1024, 0, 0, 0)
Inf == [k |-> "inf", s |-> 1, e |-> 0, m3 |-> 0, m2 |-> 0, m1 |-> 0, m0 |-> 0]
NaN == [k |-> "nan", s |-> 0, e |-> 0, m3 |-> 0, m2 |-> 0, m1 |-> 0, m0 |-> 0]

\* number of bits of a natural number
BitLen[x \in Nat] == IF x = 0 THEN 0 ELSE 1 + BitLen[x \div 2]

\* naturals below 2^70 as five limbs, most significant first
BitLen5(X) ==
    IF X[1] > 0 THEN 56 + BitLen[X[1]]
    ELSE IF X[2] > 0 THEN 42 + BitLen[X[2]]
    ELSE IF X[3] > 0 THEN 28 + BitLen[X[3]]
    ELSE IF X[4] > 0 THEN 14 + BitLen[X[4]]
    ELSE BitLen[X[5]]

One5 == <<0, 0, 0, 0, 1>>

Geq5(X, Y) ==
    IF X[1] # Y[1] THEN X[1] > Y[1]
    ELSE IF X[2] # Y[2] THEN X[2] > Y[2]
    ELSE IF X[3] # Y[3] THEN X[3] > Y[3]
    ELSE IF X[4] # Y[4] THEN X[4] > Y[4]
    ELSE X[5] >= Y[5]

Add5(X, Y) ==
    LET t5 == X[5] + Y[5]
        t4 == X[4] + Y[4] + (t5 \div B14)
        t3 == X[3] + Y[3] + (t4 \div B14)
        t2 == X[2] + Y[2] + (t3 \div B14)
        t1 == X[1] + Y[1] + (t2 \div B14)
    IN  <<t1, t2 % B14, t3 % B14, t4 % B14, t5 % B14>>

\* X - Y for X >= Y
Sub5(X, Y) ==
    LET t5 == X[5] - Y[5]
        t4 == X[4] - Y[4] + (t5 \div B14)
        t3 == X[3] - Y[3] + (t4 \div B14)
        t2 == X[2] - Y[2] + (t3 \div B14)
        t1 == X[1] - Y[1] + (t2 \div B14)
    IN  <<t1, t2 % B14, t3 % B14, t4 % B14, t5 % B14>>

\* Y shifted right by fewer than 14 bits, p = 2^bits; st tells whether a
\* bit was lost here or before
BitShR(Y, p, lost) ==
    [x |-> <<Y[1] \div p,
             (Y[2] \div p) + (Y[1] % p) * (B14 \div p),
             (Y[3] \div p) + (Y[2] % p) * (B14 \div p),
             (Y[4] \div p) + (Y[3] % p) * (B14 \div p),
             (Y[5] \div p) + (Y[4] % p) * (B14 \div p)>>,
     st |-> lost \/ Y[5] % p # 0]

\* X shifted right by n bits; st tells whether a bit was lost
ShR(X, n) ==
    BitShR(CASE n \div 14 = 0 -> X
             [] n \div 14 = 1 -> <<0, X[1], X[2], X[3], X[4]>>
             [] n \div 14 = 2 -> <<0, 0, X[1], X[2], X[3]>>
             [] n \div 14 = 3 -> <<0, 0, 0, X[1], X[2]>>
             [] n \div 14 = 4 -> <<0, 0, 0, 0, X[1]>>
             [] OTHER -> <<0, 0, 0, 0, 0>>,
           P2[(n % 14) + 1],
           CASE n \div 14 = 0 -> FALSE
             [] n \div 14 = 1 -> X[5] # 0
             [] n \div 14 = 2 -> X[5] # 0 \/ X[4] # 0
             [] n \div 14 = 3 -> X[5] # 0 \/ X[4] # 0 \/ X[3] # 0
             [] n \div 14 = 4 -> X[5] # 0 \/ X[4] # 0 \/ X[3] # 0 \/ X[2] # 0
             [] OTHER -> X # <<0, 0, 0, 0, 0>>)

\* Y shifted left by fewer than 14 bits, p = 2^bits
BitShL(Y, p) ==
    <<(Y[1] % (B14 \div p)) * p + (Y[2] \div (B14 \div p)),
      (Y[2] % (B14 \div p)) * p + (Y[3] \div (B14 \div p)),
      (Y[3] % (B14 \div p)) * p + (Y[4] \div (B14 \div p)),
      (Y[4] % (B14 \div p)) * p + (Y[5] \div (B14 \div p)),
      (Y[5] % (B14 \div p)) * p>>

\* X shifted left by n bits, for X * 2^n < 2^70
ShL(X, n) ==
    BitShL(CASE n \div 14 = 0 -> X
             [] n \div 14 = 1 -> <<X[2], X[3], X[4], X[5], 0>>
             [] n \div 14 = 2 -> <<X[3], X[4], X[5], 0, 0>>
             [] n \div 14 = 3 -> <<X[4], X[5], 0, 0, 0>>
             [] OTHER -> <<X[5], 0, 0, 0, 0>>,
           P2[(n % 14) + 1])

\* s * M * 2^e for 2^52 <= M <= 2^53
Pack(s, e, M) ==
    IF M[2] = 2048 THEN Dbl(s, e + 1, 1024, 0, 0, 0)
    ELSE Dbl(s, e, M[2], M[3], M[4], M[5])

\* r.x has 54 bits: the mantissa M and the bit below it.  M goes up by
\* one when that bit is set and either a bit below it is set or M is odd
RoundShifted(s, e, r, st) ==
    LET M == BitShR(r.x, 2, FALSE).x
    IN  Pack(s, e, IF r.x[5] % 2 = 1 /\ (st \/ r.st \/ M[5] % 2 = 1)
                   THEN Add5(M, One5) ELSE M)

\* X has n bits
RoundAt(s, e, X, st, n) ==
    IF n = 0 THEN FZero
    ELSE IF n <= 53 THEN Pack(s, e - (53 - n), ShL(X, 53 - n))
    ELSE RoundShifted(s, e + (n - 53), ShR(X, n - 54), st)

\* the double nearest to s * (X + f) * 2^e, where 0 <= f < 1 and f > 0 iff
\* st; ties go to the even mantissa.  With st, X has at least 54 bits.
RoundPack(s, e, X, st) == RoundAt(s, e, X, st, BitLen5(X))

\* float(n) for an integer n
FromInt(n) ==
    RoundPack(IF n < 0 THEN -1 ELSE 1, 0,
              <<0, 0, Abs(n) \div (B14 * B14), (Abs(n) \div B14) % B14,
                Abs(n) % B14>>,
              FALSE)

Mant5(a) == <<a.m3, a.m2, a.m1, a.m0, 0>>
MagGeq(a, b) ==
    IF a.e # b.e THEN a.e > b.e ELSE Geq5(Mant5(a), Mant5(b))

FNeg(a) == [a EXCEPT !.s = -a.s]

\* a power of two: multiplying or dividing by it only moves the exponent
IsPow2(a) == a.m3 = 1024 /\ a.m2 = 0 /\ a.m1 = 0 /\ a.m0 = 0

\* hi + lo for finite non zero hi, lo with |hi| >= |lo|, r the mantissa of
\* lo shifted to the exponent of hi
AddShifted(hi, lo, r) ==
    RoundPack(hi.s, hi.e - 14,
              IF hi.s = lo.s THEN Add5(Mant5(hi), r.x)
              ELSE Sub5(Sub5(Mant5(hi), r.x),
                        IF r.st THEN One5 ELSE <<0, 0, 0, 0, 0>>),
              r.st)

AddOrdered(hi, lo) == AddShifted(hi, lo, ShR(Mant5(lo), hi.e - lo.e))

FAdd(a, b) ==
    IF a.k = "nan" \/ b.k = "nan" THEN NaN
    ELSE IF a.k = "inf" \/ b.k = "inf"
    THEN IF a.k = "inf" /\ b.k = "inf" /\ a.s # b.s THEN NaN
         ELSE IF a.k = "inf" THEN a ELSE b
    ELSE IF b.s = 0 THEN a
    ELSE IF a.s = 0 THEN b
    ELSE AddOrdered(IF MagGeq(a, b) THEN a ELSE b,
                    IF MagGeq(a, b) THEN b ELSE a)

FSub(a, b) == FAdd(a, FNeg(b))

FMul(a, b) ==
    IF a.k = "nan" \/ b.k = "nan" THEN NaN
    ELSE IF a.k = "inf" \/ b.k = "inf"
    THEN IF a.s = 0 \/ b.s = 0 THEN NaN ELSE [Inf EXCEPT !.s = a.s * b.s]
    ELSE IF a.s = 0 \/ b.s = 0 THEN FZero
    ELSE IF IsPow2(b)
    THEN Dbl(a.s * b.s, a.e + b.e + 52, a.m3, a.m2, a.m1, a.m0)
    ELSE IF IsPow2(a)
    THEN Dbl(a.s * b.s, a.e + b.e + 52, b.m3, b.m2, b.m1, b.m0)
    ELSE LET c0 == a.m0 * b.m0
             c1 == a.m1 * b.m0 + a.m0 * b.m1 + (c0 \div B14)
             c2 == a.m2 * b.m0 + a.m1 * b.m1 + a.m0 * b.m2 + (c1 \div B14)
             c3 == a.m3 * b.m0 + a.m2 * b.m1 + a.m1 * b.m2 + a.m0 * b.m3
                     + (c2 \div B14)
             c4 == a.m3 * b.m1 + a.m2 * b.m2 + a.m1 * b.m3 + (c3 \div B14)
             c5 == a.m3 * b.m2 + a.m2 * b.m3 + (c4 \div B14)
             c6 == a.m3 * b.m3 + (c5 \div B14)
         IN  RoundPack(a.s * b.s, a.e + b.e + 42,
                       <<c6 \div B14, c6 % B14, c5 % B14, c4 % B14,
                         c3 % B14>>,
                       c2 % B14 # 0 \/ c1 % B14 # 0 \/ c0 % B14 # 0)

\* D * q for a limb q, D < 2^56
MulLimb(D, q) ==
    LET t5 == D[5] * q
        t4 == D[4] * q + (t5 \div B14)
        t3 == D[3] * q + (t4 \div B14)
        t2 == D[2] * q + (t3 \div B14)
    IN  <<t2 \div B14, t2 % B14, t3 % B14, t4 % B14, t5 % B14>>

\* one digit of the long division: the largest q with q * D <= R, from a
\* first guess g >= q; t is <<R, D, g * D, <<g>>>> and the digit comes
\* with R - q * D
DivDigit[t \in Seq(Seq(Int))] ==
    IF Geq5(t[1], t[3]) THEN <<t[4][1], Sub5(t[1], t[3])>>
    ELSE DivDigit[<<t[1], t[2], Sub5(t[3], t[2]), <<t[4][1] - 1>>>>]

DivStep(R, D) ==
    LET g0 == (R[1] * B14 + R[2]) \div D[2]
        g == IF g0 >= B14 THEN B14 - 1 ELSE g0
    IN  DivDigit[<<R, D, MulLimb(D, g), <<g>>>>]

\* the digit s[1] joins the quotient and the remainder s[2] moves up a limb
PushDigit(t, s) ==
    <<Append(t[1], s[1]), <<s[2][2], s[2][3], s[2][4], s[2][5], 0>>, t[3]>>

\* t is <<digits so far, remainder, divisor>>; five digits are produced
LongDiv[t \in Seq(Seq(Int))] ==
    IF Len(t[1]) = 5 THEN t ELSE LongDiv[PushDigit(t, DivStep(t[2], t[3]))]

DivRound(s, e, t) == RoundPack(s, e, t[1], t[2] # <<0, 0, 0, 0, 0>>)

FDiv(a, b) ==
    IF a.k = "nan" \/ b.k = "nan" THEN NaN
    ELSE IF a.k = "inf"
    THEN IF b.k = "inf" THEN NaN
         ELSE [Inf EXCEPT !.s = IF b.s < 0 THEN -a.s ELSE a.s]
    ELSE IF b.k = "inf" THEN FZero
    ELSE IF b.s = 0
    THEN IF a.s = 0 THEN NaN ELSE [Inf EXCEPT !.s = a.s]
    ELSE IF a.s = 0 THEN FZero
    ELSE IF IsPow2(b)
    THEN Dbl(a.s * b.s, a.e - b.e - 52, a.m3, a.m2, a.m1, a.m0)
    ELSE DivRound(a.s * b.s, a.e - b.e - 56,
                  LongDiv[<<<<>>,
                            MulLimb(<<0, a.m3, a.m2, a.m1, a.m0>>, 8),
                            MulLimb(<<0, b.m3, b.m2, b.m1, b.m0>>, 8)>>])

FLt(a, b) ==
    IF a.k = "nan" \/ b.k = "nan" THEN FALSE
    ELSE IF a.k = "inf" \/ b.k = "inf"
    THEN IF a.k = "inf" THEN a.s < 0 /\ ~(b.k = "inf" /\ b.s < 0)
         ELSE b.s > 0
    ELSE IF a.s # b.s THEN a.s < b.s
    ELSE IF a.s = 0 THEN FALSE
    ELSE IF a.s > 0 THEN ~MagGeq(a, b) ELSE ~MagGeq(b, a)
FGt(a, b) == FLt(b, a)
FEq(a, b) == IF a.k = "nan" \/ b.k = "nan" THEN FALSE ELSE a = b
FIsZero(a) == a.k = "fin" /\ a.s = 0

\* literals of the code
F0001 == FDiv(FOne, FromInt(1000))       \* 0.001
F001 == FDiv(FOne, FromInt(100))         \* 0.01
F09 == FDiv(FromInt(9), FromInt(10))     \* 0.9
F3600 == FromInt(3600)                   \* 3600.
F1000 == FromInt(1000)

\* float(n) of a flag or a small count
IntFlag(n) == CASE n = 0 -> FZero [] n = 1 -> FOne [] OTHER -> FromInt(n)

\* seconds / 3600.
hours(seconds) == FDiv(FromInt(seconds), F3600)

(***************************************************************************)
(* Ephemeris oracle (MMTEphem).  A sky position is one of four tracks:     *)
(* "Z" and "Y" are up all night, "W" sets SetOffset seconds after evening  *)
(* twilight, "N" never rises.  The moon is down during the first night; on *)
(* later nights it rises MoonRiseOffset seconds after evening twilight.    *)
(***************************************************************************)
Positions == {"Z", "Y", "W", "N"}
SetOffset == 100 * 60
MoonRiseOffset == 120 * 60

\* every night of the campaign is four hours long; the nights before the
\* campaign are two hours long
NightLength == 4 * 3600
ShortNightLength == 2 * 3600
nightSeconds(date) == IF date < 1 THEN ShortNightLength ELSE NightLength

eveningTwilight(date) == (date - 1) * DaySeconds
morningTwilight(date) == eveningTwilight(date) + nightSeconds(date)

\* objEphem.time covers the night; the nearest sample to a time outside it
\* is the first or the last one
NearestSample(date, time) ==
    IF time < eveningTwilight(date) THEN eveningTwilight(date)
    ELSE IF time > morningTwilight(date) THEN morningTwilight(date)
    ELSE time

ObjEphemObservable(pos, date, time) ==
    LET t == NearestSample(date, time) - eveningTwilight(date)
    IN  CASE pos \in {"Z", "Y"} -> 1
          [] pos = "W" -> IF t < SetOffset THEN 1 ELSE 0
          [] OTHER -> 0

\* parallactic angle of the nearest sample, in degrees
ObjEphemParAngle(pos, date, time) == 0

MoonUpAt(date, time) ==
    date > 1 /\ time - eveningTwilight(date) >= MoonRiseOffset

\* MMTEphem.moonAge, in tenths of a day
moonAge(date) == IF date = 1 THEN 20 ELSE 70

\* separation of a position from the moon, in degrees
MoonSep(pos, time) ==
    CASE pos \in {"Z", "Y"} -> 100
      [] pos = "W" -> 60
      [] OTHER -> 5

(***************************************************************************)
(* Coordinates.  The catalog gives right ascension and declination as      *)
(* sexagesimal strings: a sign and three fields.                           *)
(***************************************************************************)
Sexa(neg, h, m, s) == [neg |-> neg, h |-> h, m |-> m, s |-> s]

\* ra, dec of the four tracks: 10:00:00 +50:00:00, 12:00:00 +30:00:00,
\* 02:00:00 -30:00:00, 22:00:00 -60:00:00
Sky ==
    [Z |-> [ra |-> Sexa(FALSE, 10, 0, 0), dec |-> Sexa(FALSE, 50, 0, 0)],
     Y |-> [ra |-> Sexa(FALSE, 12, 0, 0), dec |-> Sexa(FALSE, 30, 0, 0)],
     W |-> [ra |-> Sexa(FALSE, 2, 0, 0), dec |-> Sexa(TRUE, 30, 0, 0)],
     N |-> [ra |-> Sexa(FALSE, 22, 0, 0), dec |-> Sexa(TRUE, 60, 0, 0)]]

\* sign * (float(h) + float(m)/60. + float(s)/3600.)
hms2dec(c) ==
    FMul(IF c.neg THEN FNeg(FOne) ELSE FOne,
         FAdd(FAdd(FromInt(c.h), FDiv(FromInt(c.m), FromInt(60))),
              FDiv(FromInt(c.s), F3600)))

(***************************************************************************)
(* The C library (math.cos, math.sin, math.sqrt) and np.arccos, on the     *)
(* arguments the sky of the model gives them: whole degrees, which angSep  *)
(* takes as radians.  The values are those of the IEEE double library.     *)
(***************************************************************************)
mathCos(x) ==
    LET value ==
               ((-300) :> Dbl(-1, -58, 1448, 2032, 4727, 3886))   \* -0.022096619278683942
            @@ ((-180) :> Dbl(-1, -53, 1225, 10587, 11336, 6086))   \* -0.5984600690578581
            @@ ((-150) :> Dbl(1, -53, 1432, 1075, 10435, 5890))   \* 0.6992508064783751
            @@ ((-120) :> Dbl(1, -53, 1667, 7252, 183, 15593))   \* 0.8141809705265618
            @@ ((-60) :> Dbl(-1, -53, 1950, 8876, 9621, 10323))   \* -0.9524129804151563
            @@ ((-30) :> Dbl(1, -55, 1263, 10287, 2369, 6738))   \* 0.15425144988758405
            @@ (0 :> Dbl(1, -52, 1024, 0, 0, 0))   \* 1.0
            @@ (30 :> Dbl(1, -55, 1263, 10287, 2369, 6738))   \* 0.15425144988758405
            @@ (50 :> Dbl(1, -53, 1976, 4102, 16143, 15610))   \* 0.9649660284921133
            @@ (120 :> Dbl(1, -53, 1667, 7252, 183, 15593))   \* 0.8141809705265618
            @@ (150 :> Dbl(1, -53, 1432, 1075, 10435, 5890))   \* 0.6992508064783751
            @@ (180 :> Dbl(-1, -53, 1225, 10587, 11336, 6086))   \* -0.5984600690578581
            @@ (300 :> Dbl(-1, -58, 1448, 2032, 4727, 3886))   \* -0.022096619278683942
    IN  value[CHOOSE n \in DOMAIN value : FromInt(n) = x]

mathSin(x) ==
    LET value ==
               ((-60) :> Dbl(1, -54, 1248, 8262, 8475, 8386))   \* 0.3048106211022167
            @@ ((-30) :> Dbl(1, -53, 2023, 8007, 15474, 4157))   \* 0.9880316240928618
            @@ (30 :> Dbl(-1, -53, 2023, 8007, 15474, 4157))   \* -0.9880316240928618
            @@ (50 :> Dbl(-1, -54, 1074, 11262, 6131, 8136))   \* -0.26237485370392877
    IN  value[CHOOSE n \in DOMAIN value : FromInt(n) = x]

arccosInRange(x) ==
    CASE x = Dbl(-1, -53, 1965, 3228, 632, 66) ->   \* -0.9595688592962761
            Dbl(1, -51, 1462, 6660, 15784, 12195)   \* 2.856262798717539
      [] x = Dbl(-1, -54, 1654, 5478, 4453, 3664) ->   \* -0.4038902263612032
            Dbl(1, -52, 2034, 3918, 14687, 1584)   \* 1.9865617094295764
      [] x = Dbl(-1, -55, 1130, 14290, 6585, 15798) ->   \* -0.13804592491667983
            Dbl(1, -52, 1750, 5035, 5471, 2170)   \* 1.709284504290308
      [] x = Dbl(1, -54, 1155, 14237, 12938, 9764) ->   \* 0.28219458147450127
            Dbl(1, -52, 1315, 8988, 4551, 3606)   \* 1.2847154306044835
      [] x = Dbl(1, -54, 1246, 14062, 13635, 4471) ->   \* 0.30440877127991633
            Dbl(1, -52, 1291, 12355, 11481, 1691)   \* 1.2614786446542101
      [] x = Dbl(1, -54, 1925, 4502, 5287, 13658) ->   \* 0.47003779296195136
            Dbl(1, -52, 1107, 6845, 13795, 5652)   \* 1.0814627314806602
      [] x = Dbl(1, -52, 1024, 0, 0, 0) ->   \* 1.0
            FZero   \* 0.0

\* np.arccos: nan outside [-1, 1]
npArccos(x) ==
    IF FGt(x, FOne) \/ FLt(x, FNeg(FOne)) THEN NaN ELSE arccosInRange(x)

\* math.sqrt, met on 0.0 only: equal positions
mathSqrt(x) == CASE x = FZero -> FZero

\* math.pi
MathPi == Dbl(1, -51, 1608, 8117, 4368, 11544)
\* the literal 0.000004848
SmallAngle == Dbl(1, -70, 1301, 6145, 7959, 14330)

\* lines 89-93: below the threshold the separation is the planar one
smallSep(rad, dra, ddec) ==
    IF FLt(rad, SmallAngle)
    THEN mathSqrt(FAdd(FMul(dra, dra), FMul(ddec, ddec)))
    ELSE rad

\* angSep is handed degrees and takes them as radians
angSep(ra1, dec1, ra2, dec2) ==
    FDiv(FMul(smallSep(npArccos(FAdd(FMul(mathSin(dec1), mathSin(dec2)),
                                     FMul(FMul(mathCos(dec1), mathCos(dec2)),
                                          mathCos(FSub(ra1, ra2))))),
                       FMul(mathCos(dec1), FSub(ra1, ra2)),
                       FSub(dec1, dec2)),
              FromInt(180)),
         MathPi)

\* lines 398-399: the pointing obsUpdateRow returns for a committed request
outPos(pos) == <<FMul(hms2dec(Sky[pos].ra), FromInt(15)), hms2dec(Sky[pos].dec)>>

\* the pointing of each track
Pointing == [p \in Positions |-> outPos(p)]

\* no previous pointing
None == <<>>

\* 10./3600.
SlewLimit == FDiv(FromInt(10), F3600)

\* dist < 10./3600. between the tracks p and q at the pointings P
shortSlews(P) ==
    [p \in Positions, b \in {P[q] : q \in Positions} |->
        FLt(angSep(P[p][1], P[p][2], b[1], b[2]), SlewLimit)]

\* whether a request on a track is within the limit of a previous pointing
slewIsShort == shortSlews(Pointing)

(***************************************************************************)
(* Visibility and rotator check.                                           *)
(***************************************************************************)
RotLimitLow == -180
RotLimitHigh == 164

getRotatorObservable(parAngleDeg, pa) ==
    LET raw == parAngleDeg - pa
        rotAngle == IF raw < -180 THEN raw + 360 ELSE raw
    IN  IF rotAngle > RotLimitLow /\ rotAngle < RotLimitHigh THEN 1 ELSE 0

isObservable(fld, date, time) ==
    ObjEphemObservable(fld.pos, date, time)
        * getRotatorObservable(ObjEphemParAngle(fld.pos, date, time), fld.pa)

(***************************************************************************)
(* Weight engine.                                                          *)
(***************************************************************************)
ObsTypes == {"mask", "longslit", "imaging"}

mmirsOverheadRaises(fld) == fld.obstype \notin ObsTypes

mmirsOverhead(fld) ==
    CASE fld.obstype = "mask" -> 1800
      [] fld.obstype = "longslit" -> 1800
      [] OTHER -> 120

lunarDistance(fld, startTime, endTime) ==
    (MoonSep(fld.pos, startTime) + MoonSep(fld.pos, endTime)) \div 2

moonUpDuringObs(date, startTime, endTime) ==
    IF MoonUpAt(date, startTime) \/ MoonUpAt(date, endTime) THEN 1 ELSE 0

\* the decision of calcMoonFlag on the oracle's three answers
illumFlag(moonReq, moonUp, age, moonDist) ==
    LET first ==
            IF moonReq = "bright" \/ moonUp = 0 THEN 1
            ELSE IF moonReq = "grey" /\ Abs(age) < 90 /\ moonDist < 90 THEN 1
            ELSE IF moonReq = "dark" /\ Abs(age) < 45 /\ moonDist > 90 THEN 1
            ELSE 0
    IN  IF moonDist < 10 THEN 0 ELSE first

calcMoonFlag(fld, date, startTime, endTime) ==
    illumFlag(fld.moon, moonUpDuringObs(date, startTime, endTime),
              moonAge(date), lunarDistance(fld, startTime, endTime))

expPerVisit(fld) == fld.exptime * 60 * fld.nexp

\* a variant that does not look at the time left in the night
possVisitsIgnoreNightEnd(fld, date, startTime) == fld.repeats + 1

\* visits that fit before morning twilight, by floor division
possVisits(fld, date, startTime) ==
    (morningTwilight(date) - startTime - mmirsOverhead(fld))
        \div expPerVisit(fld)

projectedEnd(fld, startTime, n) ==
    startTime + expPerVisit(fld) * n + mmirsOverhead(fld)

\* the while loop of willItFitWeight: the largest n' <= n, n' >= 1, with
\* the target observable at the projected end; 0 when there is none
RECURSIVE stepDown(_, _, _, _)
stepDown(fld, date, startTime, n) ==
    IF n < 1 THEN 0
    ELSE IF isObservable(fld, date, projectedEnd(fld, startTime, n)) = 1
         THEN n
         ELSE stepDown(fld, date, startTime, n - 1)

\* a variant that forgets the visits already done
remainingVisitsIgnoreDone(fld, donefld) == fld.repeats

\* repeats still to do (line 249)
remainingVisits(fld, donefld) == fld.repeats - donefld.doneVisit

willItFitWeight(fld, date, startTime, donefld) ==
    LET repeats == remainingVisits(fld, donefld)
        poss == possVisits(fld, date, startTime)
        allFit == poss > repeats
                  /\ isObservable(fld, date,
                                  projectedEnd(fld, startTime, repeats)) = 1
        n == stepDown(fld, date, startTime,
                      IF poss > repeats THEN repeats ELSE poss)
    IN  IF isObservable(fld, date, startTime) = 0
        THEN [fitWeight |-> FZero, endTime |-> startTime, nVisits |-> 0]
        ELSE IF mmirsOverheadRaises(fld) THEN "classError"
        ELSE IF expPerVisit(fld) = 0 THEN "zeroDivisionError"
        ELSE IF allFit
        THEN [fitWeight |-> FOne,
              endTime |-> projectedEnd(fld, startTime, repeats),
              nVisits |-> repeats]
        ELSE IF n >= 1
        THEN [fitWeight |-> FDiv(FMul(FOne, FromInt(n)), FromInt(repeats)),
              endTime |-> projectedEnd(fld, startTime, n),
              nVisits |-> n]
        ELSE [fitWeight |-> FZero, endTime |-> startTime, nVisits |-> 0]

\* willItFitWeight raises at line 256, which a target that is observable at
\* startTime reaches: AssertionError from mmirsOverhead on an unknown class,
\* ZeroDivisionError from the division by an expPerVisit of 0.0
willItFitRaises(fld, date, startTime) ==
    IF isObservable(fld, date, startTime) = 0 THEN FALSE
    ELSE IF mmirsOverheadRaises(fld) THEN TRUE
    ELSE expPerVisit(fld) = 0

\* lines 326-333: 1000 when angSep from the previous pointing is below
\* 10 arcseconds; a nan separation compares false
distWeight(fld, prevPos) ==
    IF prevPos = None THEN 1
    ELSE IF slewIsShort[fld.pos, prevPos] THEN 1000 ELSE 1

\* line 343: 1.0 / float(priority)**3 on Python floats, which raises
\* ZeroDivisionError for priority 0
priorFlag(fld) ==
    IF fld.priority = 0 THEN "zeroDivisionError"
    ELSE FDiv(FOne, FromInt(fld.priority * fld.priority * fld.priority))

\* lines 346-349: 1.0 - 1.0 * doneTime / totalTime, 0.001 when negative
weightTAC(donefld) ==
    LET orSmall(w) == IF FLt(w, FZero) THEN F0001 ELSE w
    IN  orSmall(FSub(FOne, FDiv(FMul(FOne, donefld.doneTime),
                                donefld.totalTime)))

\* lines 334-365: the entry of a row whose fit is known
weightRow(i, fld, donefld, date, startTime, prevPos, fit) ==
    LET moonFlag == calcMoonFlag(fld, date, startTime, fit.endTime)
    IN  [row |-> i,
         fitWeight |-> fit.fitWeight,
         obsTime |-> fit.endTime - startTime,
         moonFlag |-> moonFlag,
         nVisits |-> fit.nVisits,
         totalWeight |->
            FDiv(FMul(FMul(FMul(FMul(fit.fitWeight, IntFlag(moonFlag)),
                                weightTAC(donefld)),
                           IF distWeight(fld, prevPos) = 1
                           THEN FOne ELSE F1000),
                      priorFlag(fld)),
                 donefld.prevWeight)]

\* lines 319-343: the body of the loop raises for an open row, in
\* willItFitWeight or at the priority weight
obsWeightRaises(fld, date, startTime) ==
    IF willItFitRaises(fld, date, startTime) THEN TRUE
    ELSE fld.priority = 0

\* the entry obsUpdateRow appends to weightList for row i, or what the body
\* of the loop raises before it appends one
obsWeight(fldPar, donePar, date, startTime, prevPos, i) ==
    IF obsWeightRaises(fldPar[i], date, startTime)
    THEN IF willItFitRaises(fldPar[i], date, startTime)
         THEN willItFitWeight(fldPar[i], date, startTime, donePar[i])
         ELSE priorFlag(fldPar[i])
    ELSE weightRow(i, fldPar[i], donePar[i], date, startTime, prevPos,
                   willItFitWeight(fldPar[i], date, startTime, donePar[i]))

\* a variant that scans the complete rows too
openRowsAll(donePar) == [i \in 1..Len(donePar) |-> i]

\* rows still open, in table order (line 309)
openRows(donePar) ==
    SelectSeq([i \in 1..Len(donePar) |-> i],
              LAMBDA i : donePar[i].complete # 1)

\* the loop ends at the first row whose body raises
upToRaise(ws, raising) ==
    IF raising = {} THEN ws
    ELSE ws[CHOOSE j \in raising : \A k \in raising : j <= k]

\* the list obsUpdateRow builds over the open rows, or what the first of
\* them to raise has raised
weightList(fldPar, donePar, date, startTime, prevPos) ==
    LET rows == openRows(donePar)
    IN  upToRaise(
            [j \in 1..Len(rows) |->
                obsWeight(fldPar, donePar, date, startTime, prevPos, rows[j])],
            {j \in 1..Len(rows) :
                obsWeightRaises(fldPar[rows[j]], date, startTime)})

\* Python's max() over the column: keep the first, replace on a strict >
RECURSIVE maxFrom(_, _, _)
maxFrom(ws, j, cur) ==
    IF j > Len(ws) THEN cur
    ELSE maxFrom(ws, j + 1,
                 IF FGt(ws[j].totalWeight, cur) THEN ws[j].totalWeight
                 ELSE cur)
maxWeight(ws) == maxFrom(ws, 2, ws[1].totalWeight)

\* a variant that lets any candidate be drawn
hasMaxAny(ws) == 1..Len(ws)

hasMax(ws) == {j \in 1..Len(ws) : FEq(ws[j].totalWeight, maxWeight(ws))}

(***************************************************************************)
(* Catalog, allocation file and completion table.  Catalog and table are   *)
(* in the same row order; objid is the row number.                         *)
(***************************************************************************)
PIs == {1, 2}
UnknownId == 0

Req(id, pi, prio, reps, exptime, moonReq, pos) ==
    [objid |-> id, PI |-> pi, priority |-> prio, repeats |-> reps,
     exptime |-> exptime, nexp |-> 1, obstype |-> "imaging",
     moon |-> moonReq, pos |-> pos, pa |-> 0]

\* two requests: the first of program 1 anywhere on the sky, asking for one
\* visit or for MaxRepeats visits, the second a single visit of either
\* program and always up
CatTwo ==
    {<<Req(1, 1, 1, r1, 58, "bright", w1),
       Req(2, q, p2, 1, 58, IF q = 2 THEN "dark" ELSE "bright", "Y")>> :
        <<r1, w1, q, p2>> \in
            {1, MaxRepeats} \X {"Z", "W", "N"} \X PIs \X {1, 5}}

\* three requests: one of program 1 at h that fills a night, two of
\* program 2 at p that differ only in priority
Three(h, p) ==
    <<Req(1, 1, 1, 2, 118, "bright", h),
      Req(2, 2, 2, 1, 58, "bright", p),
      Req(3, 2, 5, 1, 58, "bright", p)>>
CatThree == {Three("Z", "Y")}
CatThreeNorth == {Three("Y", "Z")}

\* two requests: one always up, one of an observation class the scheduler
\* does not know, either up at evening twilight or never up
CatClass ==
    {<<Req(1, 1, 1, 1, 58, "bright", "Y"),
       [Req(2, 2, 1, 1, 58, "bright", w) EXCEPT !.obstype = "ifu"]>> :
        w \in {"W", "N"}}

\* four single visits of program 1 at one position whose first three
\* durations, 720 s, 5280 s and 1200 s, add up to the two hours of a short
\* night
CatRound ==
    {<<Req(1, 1, 1, 1, 10, "bright", "Z"),
       Req(2, 1, 2, 1, 86, "bright", "Z"),
       Req(3, 1, 3, 1, 18, "bright", "Z"),
       Req(4, 1, 4, 1, 58, "bright", "Z")>>}

\* two requests: one always up, one with a priority, an exposure time or
\* a number of exposures of 0 that is up at evening twilight, or with a
\* priority of 0 and never up
CatZero ==
    {<<Req(1, 1, 1, 1, 58, "bright", "Y"),
       [Req(2, 2, 1, 1, 58, "bright", x[1]) EXCEPT ![x[2]] = 0]>> :
        x \in {<<"W", "priority">>, <<"W", "exptime">>, <<"W", "nexp">>,
               <<"N", "priority">>}}

Catalogs == CatTwo \cup CatThree \cup CatClass \cup CatZero

\* AllocatedTime.dat: a comment, or the date of a night and the program it
\* was given to
AllocLine(d, pi) == [comment |-> FALSE, date |-> d, PI |-> pi]
CommentLine == [comment |-> TRUE, date |-> 0, PI |-> 0]

\* the default startDay "1900/1/1" and endDay "3000/1/1", as nights
StartDay == -1000
EndDay == 1000

\* line 46: the night is within 24 hours of startDay or of endDay
nearRunEdge(d, startDay, endDay) ==
    Abs(d - startDay) * DaySeconds < DaySeconds
        \/ Abs(d - endDay) * DaySeconds < DaySeconds

\* lines 51-52: the length of the night in hours
nightLength(d) == hours(morningTwilight(d) - eveningTwilight(d))

\* lines 54-57: add the night to the program's entry, or create the entry
addNight(allocatedTime, pi, d) ==
    IF pi \in DOMAIN allocatedTime
    THEN [allocatedTime EXCEPT ![pi] = FAdd(@, nightLength(d))]
    ELSE [p \in DOMAIN allocatedTime \cup {pi} |->
            IF p = pi THEN nightLength(d) ELSE allocatedTime[p]]

\* hours allocated to each program named in the file
readAllocatedTime(lines, startDay, endDay) ==
    LET after[k \in 0..Len(lines)] ==
            IF k = 0 THEN [p \in {} |-> FZero]
            ELSE IF lines[k].comment
                    \/ nearRunEdge(lines[k].date, startDay, endDay)
                 THEN after[k - 1]
                 ELSE addNight(after[k - 1], lines[k].PI, lines[k].date)
    IN  after[Len(lines)]

\* lines 138-156: a blank row for every request
blankRows(obsFrame, allocatedTime) ==
    [i \in 1..Len(obsFrame) |->
        [complete |-> 0, doneVisit |-> 0,
         totalTime |-> IF obsFrame[i].PI \in DOMAIN allocatedTime
                       THEN allocatedTime[obsFrame[i].PI]
                       ELSE F001,
         doneTime |-> FZero, prevWeight |-> FOne,
         currentWeight |-> FZero,
         PI |-> obsFrame[i].PI, objid |-> obsFrame[i].objid]]

createBlankDoneMask(obsFrame, lines, startDay, endDay) ==
    blankRows(obsFrame, readAllocatedTime(lines, startDay, endDay))

\* a short night for each program
StandardAllocation == <<AllocLine(0, 1), AllocLine(-1, 2)>>

\* no line at all; a line for program 1 only; two short nights for program
\* 1; a campaign night for each program; a comment and a night at the edge
\* of the run, which are skipped
OtherAllocations ==
    {<<>>,
     <<AllocLine(0, 1)>>,
     <<AllocLine(0, 1), AllocLine(-1, 1)>>,
     <<AllocLine(1, 1), AllocLine(2, 2)>>,
     <<CommentLine, AllocLine(StartDay, 1), AllocLine(0, 2)>>}

\* the catalogs scheduled under the other allocation files
AllocCatalogs ==
    {<<Req(1, 1, 1, MaxRepeats, 58, "bright", "W"),
       Req(2, q, 1, 1, 58, "bright", "Y")>> : q \in PIs}

\* the inputs of a campaign: a catalog and an allocation file
Inputs == Catalogs \X {StandardAllocation}

\* the inputs of the campaigns that start without a ledger
BlankInputs ==
    ((CatThreeNorth \cup CatRound) \X {StandardAllocation})
        \cup (AllocCatalogs \X OtherAllocations)

VARIABLES
    fldPar,        \* obsPars: the catalog
    allDates,      \* number of nights in fitdates.dat
    ledgerLen,     \* number of data lines of donefile.dat
    donePar,       \* the completion table
    origDonePar,   \* the campaign baseline
    ledgerRead,    \* data lines of donefile.dat read so far
    pc,            \* "load", "night", "passEnd", "write", "done", "error";
                   \* "call", "return" around a single function call
    iter,          \* the pass being run, 1..5
    finishedFlag,
    date,          \* the night being scheduled
    currentTime, allDone, prevPos, schedule,   \* locals of obsOneNight
    fullSched,     \* schedule of the pass
    output,        \* lines written to schedule.dat
    last,          \* what the last iteration of the night loop did
    nightStart,    \* the completion table at evening twilight of the night
    endDonePar,    \* the completion table as the last finished pass left it
    call           \* a single call of one function, with its arguments

vars == <<fldPar, allDates, ledgerLen, donePar, origDonePar, ledgerRead, pc,
          iter, finishedFlag, date, currentTime, allDone, prevPos, schedule,
          fullSched, output, last, nightStart, endDonePar, call>>

NoStep == [kind |-> "none"]
NoCall == [fn |-> "none"]

\* the state after createBlankDoneMask, before donefile.dat is read
InitWith(inputs, nights, ledgerLines, calls, start) ==
    /\ \E inp \in inputs :
        /\ fldPar = inp[1]
        /\ donePar = createBlankDoneMask(inp[1], inp[2], StartDay, EndDay)
    /\ allDates \in nights
    /\ ledgerLen \in ledgerLines
    /\ call \in calls
    /\ origDonePar = <<>>
    /\ ledgerRead = 0
    /\ pc = start
    /\ iter = 0
    /\ finishedFlag = FALSE
    /\ date = 0
    /\ currentTime = 0
    /\ allDone = FALSE
    /\ prevPos = None
    /\ schedule = <<>>
    /\ fullSched = <<>>
    /\ output = <<>>
    /\ last = NoStep
    /\ nightStart = <<>>
    /\ endDonePar = <<>>

\* a campaign of one night or of NumNights nights, with a ledger of up to
\* MaxLedgerLines data lines or without one
Init ==
    \/ InitWith(Inputs, {1, NumNights}, 0..MaxLedgerLines, {NoCall}, "load")
    \/ InitWith(BlankInputs, {1, NumNights}, {0}, {NoCall}, "load")

(***************************************************************************)
(* Loading the done ledger (main, lines 472-495).                          *)
(***************************************************************************)
rowsWithId(tbl, id) == {i \in 1..Len(tbl) : tbl[i].objid = id}

\* line 486: max(...) is "False" compares a bool with a string by identity
ledgerNoMatchRaises(tbl, id) == FALSE

\* line 488: the largest doneVisit of the rows with this id is > 0
ledgerDuplicateRaises(tbl, id) ==
    \E i \in rowsWithId(tbl, id) : tbl[i].doneVisit > 0

applyLedgerLine(tbl, id, pi, visits, donetime, completed) ==
    [i \in 1..Len(tbl) |->
        [tbl[i] EXCEPT
            !.doneVisit = IF tbl[i].objid = id THEN visits ELSE @,
            !.doneTime = IF tbl[i].PI = pi THEN FAdd(@, donetime) ELSE @,
            !.complete = IF tbl[i].objid = id THEN completed ELSE @]]

LedgerVisits(id) ==
    IF id = UnknownId THEN {0} ELSE 0..fldPar[id].repeats

\* float(split[3]) of the hours a line gives: "0.0" or "1.0"
LedgerHours == {FZero, FOne}

\* the id of the data line just read, the table before it, and the ids of
\* the data lines read before it
LedgerRecord(id) ==
    [kind |-> "ledger", id |-> id, before |-> donePar,
     earlier |-> IF last.kind = "ledger"
                 THEN last.earlier \cup {last.id} ELSE {}]

ReadLedgerLine ==
    /\ pc = "load"
    /\ ledgerRead < ledgerLen
    /\ \E id \in (1..Len(fldPar)) \cup {UnknownId}, pi \in PIs,
          donetime \in LedgerHours, completed \in {0, 1} :
        \E visits \in LedgerVisits(id) :
            /\ IF ledgerNoMatchRaises(donePar, id)
                  \/ ledgerDuplicateRaises(donePar, id)
               THEN /\ pc' = "error"
                    /\ UNCHANGED donePar
               ELSE /\ donePar' = applyLedgerLine(donePar, id, pi, visits,
                                                  donetime, completed)
                    /\ pc' = "load"
            /\ last' = LedgerRecord(id)
    /\ ledgerRead' = ledgerRead + 1
    /\ UNCHANGED <<fldPar, allDates, ledgerLen, call, origDonePar, iter,
                   finishedFlag, date, currentTime, allDone, prevPos,
                   schedule, fullSched, output, nightStart, endDonePar>>

\* a variant that carries the schedule of the earlier passes along
newPassScheduleKeep == fullSched

\* line 513: every pass builds its schedule from an empty list
newPassSchedule == <<>>

\* end of the ledger (or no ledger): capture the baseline, start pass 1
StartCampaign ==
    /\ pc = "load"
    /\ ledgerRead = ledgerLen
    /\ origDonePar' = donePar
    /\ pc' = "night"
    /\ iter' = 1
    /\ date' = 1
    /\ currentTime' = eveningTwilight(1)
    /\ allDone' = FALSE
    /\ prevPos' = None
    /\ schedule' = <<>>
    /\ fullSched' = newPassSchedule
    /\ nightStart' = donePar
    /\ last' = NoStep
    /\ UNCHANGED <<fldPar, allDates, ledgerLen, call,
                   donePar, ledgerRead, finishedFlag,
                   output, endDonePar>>

(***************************************************************************)
(* One iteration of the loop of obsOneNight: a call of obsUpdateRow and    *)
(* what the loop does with its result.                                     *)
(***************************************************************************)
NightRunning ==
    pc = "night" /\ currentTime < morningTwilight(date) /\ allDone = FALSE

\* the call of obsUpdateRow at line 442 raises in its loop over the open
\* rows
scanRaises(tbl) ==
    \E j \in 1..Len(openRows(tbl)) :
        obsWeightRaises(fldPar[openRows(tbl)[j]], date, currentTime)

scan == weightList(fldPar, donePar, date, currentTime, prevPos)

\* lines 373 and 383: obsUpdateRow returns None, None
nothingToObserve(ws) ==
    IF Len(ws) = 0 THEN TRUE ELSE FIsZero(maxWeight(ws))

\* line 389: randint(0, -1) raises when no entry equals the maximum
noMaxRaises(ws) ==
    IF nothingToObserve(ws) THEN FALSE ELSE hasMax(ws) = {}

\* lines 412-415: a row of the charged program, used its hours after the
\* visit
chargeRow(donefld, used) ==
    [donefld EXCEPT
        !.doneTime = used,
        !.currentWeight = FDiv(used, donefld.totalTime)]

\* a variant that charges every row of the table
chargeEveryRow(tbl, pi, diffTime) ==
    [i \in 1..Len(tbl) |->
        chargeRow(tbl[i], FAdd(tbl[i].doneTime, hours(diffTime)))]

\* lines 409-415: charge diffTime / 3600. to every row of the winner's
\* program
chargeProgram(tbl, pi, diffTime) ==
    [i \in 1..Len(tbl) |->
        IF tbl[i].PI = pi
        THEN chargeRow(tbl[i], FAdd(tbl[i].doneTime, hours(diffTime)))
        ELSE tbl[i]]

\* lines 420-424: the flag of the winner after its visits were added
completeAfter(old, doneVisit, requested) ==
    IF doneVisit >= requested THEN 1 ELSE old

\* a variant that recomputes the flag of every row from its visits
updateDoneRecomputeAll(tbl, w) ==
    LET charged == chargeProgram(tbl, tbl[w.row].PI, w.obsTime)
        visits == [i \in 1..Len(tbl) |->
                    charged[i].doneVisit + IF i = w.row THEN w.nVisits ELSE 0]
    IN  [i \in 1..Len(tbl) |->
            [charged[i] EXCEPT
                !.doneVisit = visits[i],
                !.complete = IF visits[i] >= fldPar[i].repeats THEN 1 ELSE 0]]

\* lines 417-424: the visits of the winner and its flag
creditVisits(charged, w) ==
    LET visits == charged[w.row].doneVisit + w.nVisits
    IN  [charged EXCEPT
            ![w.row].doneVisit = visits,
            ![w.row].complete =
                completeAfter(@, visits, fldPar[w.row].repeats)]

\* lines 402-424: update the done masks for the chosen entry w
updateDone(tbl, w) ==
    creditVisits(chargeProgram(tbl, tbl[w.row].PI, w.obsTime), w)

allComplete(tbl) == \A i \in 1..Len(tbl) : tbl[i].complete = 1

StepRecord(kind, ws, winner) ==
    [kind |-> kind, ws |-> ws, winner |-> winner, before |-> donePar,
     time |-> currentTime, date |-> date, iter |-> iter,
     prevPos |-> prevPos]

\* Scanning raises: AssertionError for an unknown observation class,
\* ZeroDivisionError for an exposure time or a priority of 0, or ValueError
\* from randint on an empty list of maxima (the maximum is nan)
ScanFails ==
    /\ NightRunning
    /\ \E ws \in {scan} :
           /\ IF scanRaises(donePar) THEN TRUE ELSE noMaxRaises(ws)
           /\ last' = StepRecord(IF scanRaises(donePar) THEN ws
                                  ELSE "randintError", <<>>, 0)
    /\ pc' = "error"
    /\ UNCHANGED <<fldPar, allDates, ledgerLen, call,
                   donePar, origDonePar, ledgerRead, iter,
                   finishedFlag, date, currentTime, allDone, prevPos,
                   schedule, fullSched, output, nightStart, endDonePar>>

\* Idle-Skip: nothing returned, the clock moves 20 minutes
IdleSkip ==
    /\ NightRunning
    /\ ~scanRaises(donePar)
    /\ \E ws \in {scan} :
           /\ nothingToObserve(ws)
           /\ last' = StepRecord("idle", ws, 0)
    /\ currentTime' = currentTime + 20 * 60
    /\ prevPos' = None
    /\ UNCHANGED <<fldPar, allDates, ledgerLen, call,
                   donePar, origDonePar, ledgerRead, pc,
                   iter, finishedFlag, date, allDone, schedule, fullSched,
                   output, nightStart, endDonePar>>

\* Selecting and Advancing: one of the maxima is committed
Advance ==
    /\ NightRunning
    /\ ~scanRaises(donePar)
    /\ \E ws \in {scan} :
           /\ ~nothingToObserve(ws)
           /\ \E j \in hasMax(ws) :
                LET w == ws[j]
                IN  /\ donePar' = updateDone(donePar, w)
                    /\ schedule' = Append(schedule,
                                          [start |-> currentTime,
                                           duration |-> w.obsTime,
                                           objid |-> fldPar[w.row].objid,
                                           nVisits |-> w.nVisits])
                    /\ prevPos' = outPos(fldPar[w.row].pos)
                    /\ currentTime' = currentTime + w.obsTime
                    /\ allDone' = allComplete(donePar')
                    /\ last' = StepRecord("commit", ws, w.row)
    /\ UNCHANGED <<fldPar, allDates, ledgerLen, call,
                   origDonePar, ledgerRead, pc, iter,
                   finishedFlag, date, fullSched, output, nightStart,
                   endDonePar>>

\* obsOneNight returns; main appends the night to the pass's schedule and
\* goes to the next date
NightDone ==
    /\ pc = "night"
    /\ ~(currentTime < morningTwilight(date) /\ allDone = FALSE)
    /\ fullSched' = fullSched \o schedule
    /\ IF date < allDates
       THEN /\ date' = date + 1
            /\ currentTime' = eveningTwilight(date + 1)
            /\ allDone' = FALSE
            /\ prevPos' = None
            /\ schedule' = <<>>
            /\ nightStart' = donePar
            /\ pc' = "night"
       ELSE /\ pc' = "passEnd"
            /\ UNCHANGED <<date, currentTime, allDone, prevPos, schedule,
                           nightStart>>
    /\ last' = NoStep
    /\ UNCHANGED <<fldPar, allDates, ledgerLen, call,
                   donePar, origDonePar, ledgerRead, iter,
                   finishedFlag, output, endDonePar>>

(***************************************************************************)
(* End of a pass (main, lines 520-550).                                    *)
(***************************************************************************)
NumPasses == 5

\* allDone[PI]: every row of the program ended the pass complete
programDone(tbl, pi) ==
    \A i \in 1..Len(tbl) : tbl[i].PI = pi => tbl[i].complete = 1

\* line 542: 1 - weightMod * 0.9
dampingFactor(weightMod) == FSub(FOne, FMul(IntFlag(weightMod), F09))

\* lines 536-542: currentWeight * (1 - weightMod * 0.9)
nextPrevWeight(tbl, i) ==
    FMul(tbl[i].currentWeight,
         dampingFactor(IF programDone(tbl, tbl[i].PI) THEN 1 ELSE 0))

\* a variant that forgets to restore the visits of the baseline
newDoneTableKeepVisits(tbl, orig) ==
    [i \in 1..Len(tbl) |->
        [tbl[i] EXCEPT
            !.complete = orig[i].complete,
            !.doneTime = orig[i].doneTime,
            !.prevWeight = nextPrevWeight(tbl, i),
            !.currentWeight = FZero]]

\* lines 522-547: the table the next pass starts from
newDoneTable(tbl, orig) ==
    [i \in 1..Len(tbl) |->
        [tbl[i] EXCEPT
            !.complete = orig[i].complete,
            !.doneTime = orig[i].doneTime,
            !.doneVisit = orig[i].doneVisit,
            !.prevWeight = nextPrevWeight(tbl, i),
            !.currentWeight = FZero]]

everyProgramDone(tbl) ==
    \A i \in 1..Len(tbl) : programDone(tbl, tbl[i].PI)

PassEnd ==
    /\ pc = "passEnd"
    /\ donePar' = newDoneTable(donePar, origDonePar)
    /\ endDonePar' = donePar
    /\ finishedFlag' = everyProgramDone(donePar)
    /\ IF everyProgramDone(donePar) \/ iter = NumPasses
       THEN /\ pc' = "write"
            /\ UNCHANGED <<iter, date, currentTime, allDone, prevPos,
                           schedule, fullSched, nightStart>>
       ELSE /\ pc' = "night"
            /\ iter' = iter + 1
            /\ date' = 1
            /\ currentTime' = eveningTwilight(1)
            /\ allDone' = FALSE
            /\ prevPos' = None
            /\ schedule' = <<>>
            /\ fullSched' = newPassSchedule
            /\ nightStart' = donePar'
    /\ last' = NoStep
    /\ UNCHANGED <<fldPar, allDates, ledgerLen, call,
                   origDonePar, ledgerRead, output>>

\* lines 552-566: schedule.dat
WriteSchedule ==
    /\ pc = "write"
    /\ output' = [k \in 1..Len(fullSched) |->
                    [outStart |-> fullSched[k].start,
                     outEnd |-> fullSched[k].start + fullSched[k].duration,
                     field |-> fullSched[k].objid,
                     nVisit |-> fullSched[k].nVisits]]
    /\ pc' = "done"
    /\ UNCHANGED <<fldPar, allDates, ledgerLen, call,
                   donePar, origDonePar, ledgerRead, iter,
                   finishedFlag, date, currentTime, allDone, prevPos,
                   schedule, fullSched, last, nightStart, endDonePar>>

Next ==
    \/ ReadLedgerLine
    \/ StartCampaign
    \/ ScanFails
    \/ IdleSkip
    \/ Advance
    \/ NightDone
    \/ PassEnd
    \/ WriteSchedule

Spec == Init /\ [][Next]_vars

(***************************************************************************)
(* Single calls of calcMoonFlag, getRotatorObservable and willItFitWeight  *)
(* on arguments drawn from bounded sets.                                   *)
(***************************************************************************)
\* moon age in tenths of a day, separation in degrees
MoonAges == {-100, -90, -80, -45, -40, 0, 40, 45, 80, 90, 100}
MoonDists == {0, 9, 10, 11, 80, 90, 91, 100, 170}
MoonCalls ==
    {[fn |-> "calcMoonFlag",
      args |-> [moonReq |-> r, moonUp |-> u, moonAge |-> a, moonDist |-> d]] :
        <<r, u, a, d>> \in
            {"bright", "grey", "dark"} \X {0, 1} \X MoonAges \X MoonDists}

\* angles in degrees
ParAngles == {10 * k : k \in -20..20}
PosAngles == {90 * k : k \in -2..4}
RotCalls ==
    {[fn |-> "getRotatorObservable", args |-> [parAngle |-> a, pa |-> b]] :
        <<a, b>> \in ParAngles \X PosAngles}

FitFields ==
    {[Req(1, 1, 1, r, e, "bright", p) EXCEPT !.obstype = o] :
        <<r, e, p, o>> \in
            (1..(MaxRepeats + 1)) \X {0, 28, 58} \X Positions \X ObsTypes}
FitStarts == {eveningTwilight(1) + 20 * 60 * k : k \in 0..12}
FitCalls ==
    {[fn |-> "willItFitWeight",
      args |-> [fld |-> f, date |-> 1, startTime |-> t,
                donefld |-> [doneVisit |-> v]]] :
        <<f, t, v>> \in
            {x \in FitFields \X FitStarts \X (0..(MaxRepeats + 1)) :
                x[3] <= x[1].repeats}}

InitCalls ==
    InitWith({<<<<>>, <<>>>>}, {1}, {0}, MoonCalls \cup RotCalls \cup FitCalls, "call")

returns(result) ==
    /\ call' = [fn |-> call.fn, args |-> call.args, result |-> result]
    /\ pc' = "return"
    /\ UNCHANGED <<fldPar, allDates, ledgerLen, donePar, origDonePar,
                   ledgerRead, iter, finishedFlag, date, currentTime,
                   allDone, prevPos, schedule, fullSched, output, last,
                   nightStart, endDonePar>>

CallCalcMoonFlag ==
    /\ pc = "call"
    /\ call.fn = "calcMoonFlag"
    /\ returns(illumFlag(call.args.moonReq, call.args.moonUp,
                         call.args.moonAge, call.args.moonDist))

CallGetRotatorObservable ==
    /\ pc = "call"
    /\ call.fn = "getRotatorObservable"
    /\ returns(getRotatorObservable(call.args.parAngle, call.args.pa))

\* the call returns, or the interpreter stops at what it raises
CallWillItFitWeight ==
    /\ pc = "call"
    /\ call.fn = "willItFitWeight"
    /\ call' = [fn |-> call.fn, args |-> call.args,
                result |-> willItFitWeight(call.args.fld, call.args.date,
                                           call.args.startTime,
                                           call.args.donefld)]
    /\ pc' = IF willItFitRaises(call.args.fld, call.args.date,
                                call.args.startTime)
             THEN "error" ELSE "return"
    /\ UNCHANGED <<fldPar, allDates, ledgerLen, donePar, origDonePar,
                   ledgerRead, iter, finishedFlag, date, currentTime,
                   allDone, prevPos, schedule, fullSched, output, last,
                   nightStart, endDonePar>>

NextCalls ==
    \/ CallCalcMoonFlag
    \/ CallGetRotatorObservable
    \/ CallWillItFitWeight

\* main is a sequential program: the interpreter always executes the next
\* statement until the program ends or raises.  In every state of Spec
\* where pc is neither "done" nor "error" exactly one of the actions of
\* Next can take a step, so ENABLED <<Next>>_vars is that condition on pc,
\* and the weak fairness of Next is written out with it.
Terminated == pc \in {"done", "error"}
ProgramStep == vars' # vars
FairSpec == Spec /\ ([]<>Terminated \/ []<><<ProgramStep>>_vars)

\* a campaign on one request and one night, with a longer ledger
LedgerCatalogs ==
    {<<Req(1, 1, 1, 1, 58, "bright", w)>> : w \in {"Z", "N"}}

InitLedger ==
    InitWith(LedgerCatalogs \X {StandardAllocation}, {1},
             0..(MaxLedgerLines + 1), {NoCall}, "load")

SpecLedger == InitLedger /\ [][Next]_vars

SpecCalls == InitCalls /\ [][NextCalls]_vars

(***************************************************************************)
(* Properties.                                                             *)
(***************************************************************************)
Rows == 1..Len(fldPar)
Started == origDonePar # <<>>
Committed == Started /\ last.kind = "commit"
BaselineInRange ==
    \A i \in Rows : origDonePar[i].doneVisit <= fldPar[i].repeats

\* C1: from a baseline with visitsDone <= requested, visitsDone never
\* exceeds the requested visit count in any state of any pass, and a commit
\* never adds more visits than the winner still had to do.
C1_VisitsNeverExceedRequested ==
    (Started /\ BaselineInRange) =>
        /\ \A i \in Rows : donePar[i].doneVisit <= fldPar[i].repeats
        /\ last.kind = "commit" =>
              donePar[last.winner].doneVisit
                  - last.before[last.winner].doneVisit
              <= fldPar[last.winner].repeats
                  - last.before[last.winner].doneVisit

\* a commit in a later pass tops up a request the ledger had partly done
C1_Witness ==
    /\ Committed
    /\ iter > 1
    /\ origDonePar[last.winner].doneVisit > 0
    /\ last.before[last.winner].doneVisit < fldPar[last.winner].repeats
    /\ donePar[last.winner].doneVisit = fldPar[last.winner].repeats

\* C2: after every Advancing transition, every request is complete exactly
\* when its visitsDone has reached the requested visit count.
C2_CompleteIffVisitsReached ==
    Committed =>
        \A i \in Rows :
            (donePar[i].complete = 1)
                <=> (donePar[i].doneVisit >= fldPar[i].repeats)

\* C3: within a pass, a complete flag that is set stays set: no step of a
\* night, and no change of night, clears it.
C3_CompleteStaysWithinPass ==
    [][pc = "night" =>
          \A i \in Rows : donePar[i].complete = 1 => donePar'[i].complete = 1
      ]_vars

\* a commit was made while another request was already complete
C3_Witness ==
    /\ Committed
    /\ \E i \in Rows : i # last.winner /\ last.before[i].complete = 1

Scanned == Started /\ last.kind \in {"commit", "idle"}
FPositive(a) == FGt(a, FZero)

\* C4: whenever a request of a program with usageRatio >= 1 is weighed, the
\* fairness weight that enters its total weight is 0.001.
C4_FairnessFloorAtOrAboveOne ==
    Scanned =>
        \A j \in 1..Len(last.ws) :
            LET donefld == last.before[last.ws[j].row]
                usageRatio == FDiv(donefld.doneTime, donefld.totalTime)
            IN  ~FLt(usageRatio, FOne) => weightTAC(donefld) = F0001

\* C5: a night that starts with every request complete ends with an empty
\* schedule, commits nothing, leaves the completion table as it was, and is
\* only left at or after morning twilight.
C5_CompletedNightIsEmpty ==
    /\ [](pc = "night" /\ allComplete(nightStart) =>
            /\ schedule = <<>>
            /\ donePar = nightStart
            /\ last.kind \in {"none", "idle"})
    /\ [][(pc = "night" /\ allComplete(nightStart)) =>
            /\ pc' \in {"night", "passEnd"}
            /\ (pc' # "night" \/ date' # date) =>
                  /\ currentTime >= morningTwilight(date)
                  /\ fullSched' = fullSched
         ]_vars

\* the scheduler idled through a night that began complete, up to twilight
C5_Witness ==
    /\ pc = "night"
    /\ allComplete(nightStart)
    /\ last.kind = "idle"
    /\ currentTime >= morningTwilight(date)

\* C6: a committed winner was incomplete, its total weight is strictly
\* positive and no candidate's weight is larger; an Idle-Skip step is taken
\* only when no candidate has a positive weight; and when the scan weighs
\* no candidate, or gives every candidate weight 0, the step is an Idle-Skip.
C6_WinnerIsPositiveMaximum ==
    /\ [](Committed =>
            /\ last.before[last.winner].complete # 1
            /\ \E j \in 1..Len(last.ws) :
                /\ last.ws[j].row = last.winner
                /\ FPositive(last.ws[j].totalWeight)
                /\ \A k \in 1..Len(last.ws) :
                    ~FGt(last.ws[k].totalWeight, last.ws[j].totalWeight)
                /\ FEq(last.ws[j].totalWeight, maxWeight(last.ws)))
    /\ [](Started /\ last.kind = "idle" =>
            \A k \in 1..Len(last.ws) : ~FPositive(last.ws[k].totalWeight))
    /\ [][(NightRunning
           /\ ~scanRaises(donePar)
           /\ LET ws == scan
              IN  \A k \in 1..Len(ws) : FIsZero(ws[k].totalWeight)) =>
            /\ donePar' = donePar
            /\ schedule' = schedule
            /\ currentTime' = currentTime + 20 * 60
            /\ last'.kind = "idle"
         ]_vars

\* a commit chose between candidates of different positive weights
C6_Witness ==
    /\ Committed
    /\ \E j, k \in 1..Len(last.ws) :
        /\ last.ws[j].row = last.winner
        /\ FPositive(last.ws[k].totalWeight)
        /\ FGt(last.ws[j].totalWeight, last.ws[k].totalWeight)

\* the end-to-end scenario: A (priority 1, bright, program 1) and B
\* (priority 5, dark, program 2), one visit of an hour each, always up, one
\* night, nothing done before, a short night allocated to each program
IsEndToEnd ==
    /\ fldPar = <<Req(1, 1, 1, 1, 58, "bright", "Z"),
                  Req(2, 2, 5, 1, 58, "dark", "Y")>>
    /\ allDates = 1
    /\ Started
    /\ origDonePar = createBlankDoneMask(fldPar, StandardAllocation,
                                         StartDay, EndDay)

EndToEndHolds ==
    IsEndToEnd =>
        /\ last.kind # "idle"
        /\ Committed => Cardinality(hasMax(last.ws)) = 1
        /\ pc \in {"passEnd", "write", "done"} =>
              /\ [k \in 1..Len(fullSched) |-> fullSched[k].objid] = <<1, 2>>
              /\ \A i \in Rows : endDonePar # <<>> => endDonePar[i].complete = 1
              /\ pc = "passEnd" => allComplete(donePar)
        /\ pc # "error"

\* two candidates of one scan that differ in nothing but the priority code
DifferOnlyInPriority(step, i, k) ==
    /\ i # k
    /\ fldPar[i].priority # fldPar[k].priority
    /\ [fldPar[i] EXCEPT !.priority = 0, !.objid = 0]
           = [fldPar[k] EXCEPT !.priority = 0, !.objid = 0]
    /\ [step.before[i] EXCEPT !.objid = 0] = [step.before[k] EXCEPT !.objid = 0]

LowerCodeFirst ==
    Committed =>
        \A j \in 1..Len(last.ws) :
            DifferOnlyInPriority(last, last.winner, last.ws[j].row) =>
                fldPar[last.winner].priority < fldPar[last.ws[j].row].priority

\* C7: in the end-to-end scenario both requests are scheduled, A before B,
\* without a tie and without an Idle-Skip, and both end complete; and in
\* every campaign, of two candidates that differ only in priority code the
\* one with the lower code is committed first.
C7_EndToEndAndPriorityOrder == EndToEndHolds /\ LowerCodeFirst

\* C8: a commit adds its duration to hoursUsed of every request of the
\* winner's program and sets their usageRatio to hoursUsed / hoursAllocated;
\* hoursUsed and usageRatio of the other programs, and visitsDone and
\* complete of every request but the winner, stay as they were.
C8_CommitChargesWholeProgram ==
    Committed =>
        LET w == last.winner
            b == last.before
            dur == schedule[Len(schedule)].duration
        IN  \A i \in Rows :
              /\ b[i].PI = b[w].PI =>
                    /\ donePar[i].doneTime = FAdd(b[i].doneTime, hours(dur))
                    /\ donePar[i].currentWeight
                         = FDiv(donePar[i].doneTime, donePar[i].totalTime)
              /\ b[i].PI # b[w].PI =>
                    /\ donePar[i].doneTime = b[i].doneTime
                    /\ donePar[i].currentWeight = b[i].currentWeight
              /\ i # w =>
                    /\ donePar[i].doneVisit = b[i].doneVisit
                    /\ donePar[i].complete = b[i].complete

\* a commit with another request of the same program and one of another
C8_Witness ==
    /\ Committed
    /\ schedule[Len(schedule)].duration > 0
    /\ \E i, k \in Rows :
        /\ i # last.winner
        /\ donePar[i].PI = donePar[last.winner].PI
        /\ donePar[k].PI # donePar[last.winner].PI
        /\ FGt(donePar[k].doneTime, FZero)

PassStart == pc = "night" /\ date = 1 /\ last.kind = "none"

\* C9: at the start of every pass, complete, visitsDone and hoursUsed of
\* every request are those of the campaign baseline, and nothing but the
\* damping weight differs from the baseline.
C9_PassStartsFromBaseline ==
    PassStart =>
        \A i \in Rows :
            /\ donePar[i].complete = origDonePar[i].complete
            /\ donePar[i].doneVisit = origDonePar[i].doneVisit
            /\ donePar[i].doneTime = origDonePar[i].doneTime
            /\ [donePar[i] EXCEPT !.prevWeight = origDonePar[i].prevWeight]
                  = origDonePar[i]

\* a later pass starts after a pass that changed a ledger baseline
C9_Witness ==
    /\ PassStart
    /\ iter > 1
    /\ \E i \in Rows :
        /\ origDonePar[i].doneVisit > 0
        /\ endDonePar[i].doneVisit > origDonePar[i].doneVisit
        /\ endDonePar[i].complete # origDonePar[i].complete
        /\ FGt(endDonePar[i].doneTime, origDonePar[i].doneTime)
        /\ donePar[i].prevWeight # FOne

\* C10: after a pass, the damping weight of every request is the ratio
\* hoursUsed / hoursAllocated its program ended the pass with, times 0.1
\* (the double 1 - 0.9) when every request of the program ended the pass
\* complete.
C10_DampingFromEndingUsage ==
    endDonePar # <<>> =>
        \A i \in Rows :
            donePar[i].prevWeight =
                FMul(FDiv(endDonePar[i].doneTime, endDonePar[i].totalTime),
                     IF programDone(endDonePar, endDonePar[i].PI)
                     THEN FSub(FOne, F09) ELSE FOne)

\* visits the lines of schedule.dat give to a row, and the hours of a
\* program after the durations of its lines were added to base in turn
RECURSIVE writtenVisits(_, _)
writtenVisits(lines, id) ==
    IF lines = <<>> THEN 0
    ELSE (IF Head(lines).field = id THEN Head(lines).nVisit ELSE 0)
            + writtenVisits(Tail(lines), id)
writtenHours(lines, pi, base) ==
    LET after[k \in 0..Len(lines)] ==
            IF k = 0 THEN base
            ELSE IF fldPar[lines[k].field].PI = pi
                 THEN FAdd(after[k - 1],
                           hours(lines[k].outEnd - lines[k].outStart))
                 ELSE after[k - 1]
    IN  after[Len(lines)]

\* C11: the campaign runs at most 5 passes; a pass in which every program
\* was fully served is the last one, any other pass but the fifth is followed
\* by another; and schedule.dat holds exactly the commits of the last pass
\* that was run: its lines account for the visits and the hours that pass
\* added to the baseline.
C11_AtMostFivePassesLastOneWritten ==
    /\ [](iter <= NumPasses)
    /\ [][pc = "passEnd" =>
            IF everyProgramDone(donePar) \/ iter = NumPasses
            THEN pc' = "write" /\ iter' = iter /\ fullSched' = fullSched
            ELSE pc' = "night" /\ iter' = iter + 1
         ]_vars
    /\ [](pc = "done" =>
            /\ iter = NumPasses \/ everyProgramDone(endDonePar)
            /\ Len(output) = Len(fullSched)
            /\ \A i \in Rows :
                /\ writtenVisits(output, fldPar[i].objid)
                     = endDonePar[i].doneVisit - origDonePar[i].doneVisit
                /\ writtenHours(output, fldPar[i].PI,
                                origDonePar[i].doneTime)
                     = endDonePar[i].doneTime)

\* the campaign stopped early, after more than one pass, and wrote a schedule
C11_Witness ==
    /\ pc = "done"
    /\ iter > 1
    /\ iter < NumPasses
    /\ output # <<>>

Returned(fn) == pc = "return" /\ call.fn = fn

\* C12: for a grey request, with the moon up during the window and the
\* averaged separation at least 10 degrees, calcMoonFlag returns 1 exactly
\* when the moon age magnitude is < 9 days and the separation is > 90 degrees.
C12_GreyNeedsAgeAndFarMoon ==
    (/\ Returned("calcMoonFlag")
     /\ call.args.moonReq = "grey"
     /\ call.args.moonUp = 1
     /\ call.args.moonDist >= 10) =>
        (call.result = 1
            <=> (Abs(call.args.moonAge) < 90 /\ call.args.moonDist > 90))

\* an angle in degrees brought into [-180, 180)
WrapHalfTurn(x) == ((x + 180) % 360) - 180

\* C13: for every parallactic angle and position angle, the rotator is in
\* bounds exactly when parallacticAngle - positionAngle, wrapped into
\* [-180, 180), lies strictly between -180 and 164 degrees; parallactic angle
\* -200 with position angle 0 is tested as 160 degrees and so is in bounds.
C13_RotatorTestsWrappedAngle ==
    Returned("getRotatorObservable") =>
        LET wrapped == WrapHalfTurn(call.args.parAngle - call.args.pa)
        IN  /\ call.result = 1
                <=> (wrapped > RotLimitLow /\ wrapped < RotLimitHigh)
            /\ (call.args.parAngle = -200 /\ call.args.pa = 0) =>
                    (wrapped = 160 /\ call.result = 1)

UnknownClassOpen ==
    \E i \in Rows : donePar[i].complete # 1 /\ fldPar[i].obstype \notin ObsTypes

\* C14: when an incomplete request of the table has an observation class
\* other than imaging, longslit or mask, the Scanning step that considers it
\* aborts the night with a fatal error, observable or not, and commits
\* nothing.
C14_UnknownClassAbortsScan ==
    [][(NightRunning /\ UnknownClassOpen) =>
            /\ pc' = "error"
            /\ last'.kind = "classError"
            /\ schedule' = schedule
            /\ donePar' = donePar
      ]_vars

LineRead == last.kind = "ledger"

\* C15: a done-ledger line whose request id matches no request of the
\* catalog aborts the run before any pass starts, and the line changes
\* nothing in the completion table.
C15_UnknownLedgerIdAborts ==
    (LineRead /\ \A i \in Rows : fldPar[i].objid # last.id) =>
        (pc = "error" /\ donePar = last.before)

\* C16: a done-ledger with two lines for the same request of the catalog
\* aborts the run at the second of them, whatever the cumulative visits of
\* the first.
C16_DuplicateLedgerIdAborts ==
    (/\ LineRead
     /\ \E i \in Rows : fldPar[i].objid = last.id
     /\ last.id \in last.earlier) => pc = "error"

NightOver ==
    pc = "night" /\ ~(currentTime < morningTwilight(date) /\ allDone = FALSE)
\* the scan has raised on a request of the catalog: an unknown observation
\* class, or a priority or an exposure time of 0
ConfigurationError ==
    pc = "error" /\ last.kind \in {"classError", "zeroDivisionError"}

\* C17: every iteration of the night loop strictly advances simulated time,
\* by a committed duration > 0 or by the 20 minutes of an Idle-Skip, unless
\* it raises a fatal configuration error; and every running night reaches
\* Done (time at or past morning twilight, or every request complete after a
\* commit) or that error.
C17_NightTerminates ==
    /\ [][NightRunning =>
            \/ /\ pc' = "night"
               /\ date' = date
               /\ currentTime' > currentTime
               /\ last'.kind = "idle" => currentTime' = currentTime + 20 * 60
               /\ last'.kind = "commit" =>
                      currentTime' = currentTime
                                       + schedule'[Len(schedule')].duration
            \/ ConfigurationError'
         ]_vars
    /\ (NightRunning ~> (NightOver \/ ConfigurationError))

Min(a, b) == IF a < b THEN a ELSE b

\* visit counts of one call that fit the night, do not exceed the remaining
\* visits, and leave the target observable at the projected end
fittingCounts(a) ==
    {n \in 1..Min(a.fld.repeats - a.donefld.doneVisit,
                  possVisits(a.fld, a.date, a.startTime)) :
        isObservable(a.fld, a.date,
                     a.startTime + mmirsOverhead(a.fld)
                        + n * expPerVisit(a.fld)) = 1}

\* C18: for a request observable at the candidate start, visitsThisSlot is
\* the largest n with 1 <= n <= min(remaining visits, floor((time to morning
\* twilight - overhead) / time per visit)) for which the target is observable
\* at start + overhead + n * time per visit, and endTime is that instant;
\* when there is no such n, or the target is not observable at the start,
\* the result is weight 0, endTime = start, 0 visits.
C18_FitIsLargestObservableCount ==
    Returned("willItFitWeight") =>
        LET a == call.args
            fits == fittingCounts(a)
        IN  IF isObservable(a.fld, a.date, a.startTime) = 1 /\ fits # {}
            THEN /\ call.result.nVisits \in fits
                 /\ \A n \in fits : n <= call.result.nVisits
                 /\ call.result.endTime
                      = a.startTime + mmirsOverhead(a.fld)
                          + call.result.nVisits * expPerVisit(a.fld)
            ELSE /\ call.result.fitWeight = FZero
                 /\ call.result.endTime = a.startTime
                 /\ call.result.nVisits = 0

\* C19: for a request that still has visits to do, fitWeight is the number
\* of visits that fit and stay observable divided by the request's requested
\* visit count, also when the request already has visits done.
C19_FitWeightOverRequestedVisits ==
    (/\ Returned("willItFitWeight")
     /\ call.args.donefld.doneVisit < call.args.fld.repeats) =>
        call.result.fitWeight
            = FDiv(FromInt(call.result.nVisits),
                   FromInt(call.args.fld.repeats))

\* C20: at every Scanning step of every pass, the damping weight that
\* divides the total weight of an incomplete request is strictly positive; a
\* program without a commit in a pass does not enter the next pass with
\* damping weight 0.
C20_DampingPositiveAtScan ==
    NightRunning =>
        \A i \in Rows :
            donePar[i].complete # 1 => FGt(donePar[i].prevWeight, FZero)

\* C21: an Idle-Skip step changes only simulated time, by 20 minutes: the
\* completion table, the schedule and the last pointing set by the most
\* recent commit stay as they were, so the next Scanning step still weighs
\* the slew against that pointing.
C21_IdleSkipKeepsPointing ==
    [][(NightRunning /\ last'.kind = "idle") =>
            /\ currentTime' = currentTime + 20 * 60
            /\ donePar' = donePar
            /\ schedule' = schedule
            /\ prevPos' = prevPos
      ]_vars

entryEnd(e) == e.start + e.duration

\* C22: within a night, every entry of the schedule has a duration > 0,
\* starts at or after evening twilight and at or after the end of the entry
\* appended before it, and ends at or before morning twilight.
C22_EntriesOrderedInsideNight ==
    Started =>
        \A k \in 1..Len(schedule) :
            /\ schedule[k].duration > 0
            /\ schedule[k].start >= eveningTwilight(date)
            /\ entryEnd(schedule[k]) <= morningTwilight(date)
            /\ k > 1 => schedule[k].start >= entryEnd(schedule[k - 1])

\* a second entry of a night follows the first at once, and the night's end
\* cut the number of visits of an always-up request
C22_Witness ==
    /\ Committed
    /\ Len(schedule) >= 2
    /\ schedule[2].start = entryEnd(schedule[1])
    /\ fldPar[last.winner].pos \in {"Z", "Y"}
    /\ schedule[Len(schedule)].nVisits
         < fldPar[last.winner].repeats - last.before[last.winner].doneVisit
====
